---- MODULE Spec2Model ----
(***************************************************************************)
(* Model of src/app_faiss_api.py: the /consultar endpoint of the Flask     *)
(* service, its module-level load of the FAISS index and metadata.json,    *)
(* the lru_cache'd local embedding, the context retrieval and the answer   *)
(* extraction from the Gemini response.                                    *)
(*                                                                         *)
(* Python values are modelled as follows.  A str is a TLA+ string; the     *)
(* Python None is the sentinel None below.  A list is a sequence, indexed  *)
(* from 0 by PyIndex.  A dict is a function whose DOMAIN is its key set.   *)
(* An f-string / += concatenation is the concatenation of the sequence of  *)
(* its pieces.  An exception is a record [type, msg, raw].                 *)
(***************************************************************************)
EXTENDS Integers, Sequences, FiniteSets, TLC

\* ---------------------------------------------------------------- bounds
\* Largest number of vectors in the persisted index file.
MaxVectors == 4
\* Capacity of the memo cache: stands for lru_cache(maxsize=5000), scaled
\* down so that the cache fills and evicts with the questions of the model.
maxsize == 2

\* ------------------------------------------------------ program constants
\* buscar_contexto_para_gemini(consulta, top_k=3)
top_k == 3

\* ------------------------------------------------------------ value sets
None == "<None>"
Absent == "<absent>"

\* The worker threads of the HTTP server that run consultar concurrently.
Handlers == {"h1", "h2"}

\* Non-empty question strings.
Questions == {"q1", "q2", "q3"}

\* What a POST carries: no JSON body at all, the JSON literal null, or a
\* JSON object whose key 'pregunta' is absent, null, "" or a question.
Bodies ==
    {[json |-> "absent", pregunta |-> Absent], [json |-> "null", pregunta |-> Absent]}
    \cup {[json |-> "object", pregunta |-> p] : p \in {Absent, None, ""} \cup Questions}

\* An OPTIONS request (the CORS preflight) carries no body.
Methods == {"POST", "OPTIONS"}

\* Shapes of the object generate_content returns: whether it has an attribute
\* text (absent, a property that raises, an empty str, a str) and an
\* attribute candidates (absent, an empty list, a list with the nested text).
TextShapes == {"absent", "raises", "empty", "ok"}
CandShapes == {"absent", "emptylist", "ok"}
\* An object that has text is the client library's response class, which
\* always has candidates as well.
Responses ==
    {r \in [text : TextShapes, candidates : CandShapes] :
        r.text = "absent" \/ r.candidates = "ok"}
NoResponse == [text |-> "n/a", candidates |-> "n/a"]

\* ------------------------------------------------------------ exceptions
Exc(type, msg, raw) == [type |-> type, msg |-> msg, raw |-> raw]
NoExc == Exc("none", "", NoResponse)

\* ------------------------------------------------------- python helpers
\* list[p] for a Python int p: positions run from 0, a negative p counts
\* from the end, anything else raises IndexError.
PyIndexOk(list, p) == -Len(list) <= p /\ p < Len(list)
PyIndex(list, p) == IF p >= 0 THEN list[p + 1] ELSE list[Len(list) + p + 1]

\* "not x" for the values a JSON field can hold here.
Falsy(x) == x \in {None, ""}

\* -------------------------------------------------------------- startup
\* Contents of the two persisted files.  The i-th indexed vector and the
\* i-th record (positions from 0) are fixed; what varies between
\* deployments is whether each file exists, how many vectors and records
\* they hold, and which field names the records use.
StoredVector(p) == 4 * (((p + 1) * 3) % 7)
FileNames == <<"f0", "f1", "f2", "f3", "f4", "f5", "f6", "f7">>
Texts == <<"t0", "t1", "t2", "t3", "t4", "t5", "t6", "t7">>
Schemas == {"file_text", "documento_texto"}
Record(p, schema) ==
    IF schema = "file_text"
    THEN [file |-> FileNames[p + 1], text |-> Texts[p + 1]]
    ELSE [documento |-> FileNames[p + 1], texto |-> Texts[p + 1]]

\* INDEX_FILE = "vector_index.faiss", METADATA_FILE = "metadata.json"
\* "model" is the embedding model the index file was built with.
Disk(index_file, metadata_file, ntotal, nrecords, schema, model) ==
    [INDEX_FILE |-> index_file, METADATA_FILE |-> metadata_file,
     ntotal |-> ntotal, nrecords |-> nrecords, schema |-> schema, model |-> model]
\* metadata.json holds as many records as the index holds vectors, one
\* fewer or one more.
RecordCounts(n) == {m \in {n - 1, n, n + 1} : m >= 0}
Disks ==
    {Disk("absent", "list", 0, 0, "file_text", "all-MiniLM-L6-v2"),
     Disk("ok", "absent", 0, 0, "file_text", "all-MiniLM-L6-v2"),
     Disk("absent", "absent", 0, 0, "file_text", "all-MiniLM-L6-v2"),
     Disk("ok", "dict", 0, 0, "file_text", "all-MiniLM-L6-v2"),
     Disk("ok", "list", MaxVectors, MaxVectors, "file_text", "other")}
    \cup UNION {{Disk("ok", "list", n, m, s, "all-MiniLM-L6-v2") :
                     m \in RecordCounts(n), s \in Schemas} : n \in 0..MaxVectors}

NoIndex == [none |-> TRUE, d |-> "none", xb |-> <<>>]
NoMetadata == [none |-> TRUE, records |-> <<>>]

\* cargar_index_y_metadata(): the exception it raises (NoExc if none) and
\* the pair it returns.
cargar_index_y_metadata(disk) ==
    IF disk.INDEX_FILE = "absent" \/ disk.METADATA_FILE = "absent"
    THEN [exc |-> Exc("FileNotFoundError",
                      "No se encontraron los archivos FAISS o metadata.json",
                      NoResponse),
          index |-> NoIndex, metadata |-> NoMetadata]
    ELSE IF disk.METADATA_FILE # "list"
    THEN [exc |-> Exc("ValueError",
                      "metadata.json debe ser una lista de diccionarios",
                      NoResponse),
          index |-> NoIndex, metadata |-> NoMetadata]
    ELSE [exc |-> NoExc,
          index |-> [none |-> FALSE, d |-> disk.model,
                     xb |-> [i \in 1..disk.ntotal |-> StoredVector(i - 1)]],
          metadata |-> [none |-> FALSE,
                        records |-> [i \in 1..disk.nrecords |->
                                        Record(i - 1, disk.schema)]]]

\* The module-level try/except around the load: on any exception both
\* globals are set to None.
LoadAtStartup(disk) ==
    LET r == cargar_index_y_metadata(disk)
    IN  IF r.exc = NoExc
        THEN [index |-> r.index, metadata |-> r.metadata]
        ELSE [index |-> NoIndex, metadata |-> NoMetadata]

\* ------------------------------------------------------------ embedding
\* embedding_model.encode([texto])[0]: deterministic for a given text.
Encode(texto) ==
    CASE texto = "q1" -> 9
      [] texto = "q2" -> 21
      [] texto = "q3" -> 1
      [] OTHER -> 5

\* The lru_cache of obtener_embedding_local: a sequence of entries, least
\* recently used first.
CacheKeys(c) == {c[i].key : i \in 1..Len(c)}
CachePos(c, k) == CHOOSE i \in 1..Len(c) : c[i].key = k
CacheGet(c, k) == c[CachePos(c, k)].val
Without(c, i) == SubSeq(c, 1, i - 1) \o SubSeq(c, i + 1, Len(c))
\* A hit that leaves the order alone: first-in first-out eviction.
CacheHitFifo(c, k) == c
\* A hit moves the entry to the most-recently-used end.
CacheHit(c, k) == Without(c, CachePos(c, k)) \o <<c[CachePos(c, k)]>>
\* After a miss the computed value is stored: nothing changes if the key was
\* stored meanwhile by another thread; at capacity the oldest entry goes.
CacheInsert(c, k, v) ==
    IF k \in CacheKeys(c) THEN c
    ELSE IF Len(c) >= maxsize THEN Tail(c) \o <<[key |-> k, val |-> v]>>
    ELSE c \o <<[key |-> k, val |-> v]>>

\* --------------------------------------------------------------- search
Dist(v, x) == (v - x) * (v - x)
\* index.search(np.array([v]), k)[1][0]: the positions of the k stored
\* vectors nearest to v, nearest first; when fewer than k vectors are
\* stored the remaining slots hold -1.
RECURSIVE NearestFirst(_, _, _)
NearestFirst(xb, v, left) ==
    IF left = {} THEN <<>>
    ELSE LET p == CHOOSE c \in left :
                    \A r \in left : Dist(v, xb[c + 1]) <= Dist(v, xb[r + 1])
         IN  <<p>> \o NearestFirst(xb, v, left \ {p})
\* A search that returns the first k positions whatever the query is.
SearchFirstK(xb, v, k) == [i \in 1..k |-> IF i <= Len(xb) THEN i - 1 ELSE -1]
Search(xb, v, k) ==
    LET order == NearestFirst(xb, v, 0..(Len(xb) - 1))
    IN  [i \in 1..k |-> IF i <= Len(order) THEN order[i] ELSE -1]

\* ----------------------------------------------------- context building
\* f"Documento: {doc['file']}\nTexto: {doc['text']}\n\n"
Block(doc) == <<"Documento: ", doc.file, "\nTexto: ", doc.text, "\n\n">>
HasKeys(doc) == {"file", "text"} \subseteq DOMAIN doc

\* The for loop of buscar_contexto_para_gemini over I[0], from slot i on:
\* the exception raised (NoExc if none), the context built and the number of
\* metadata lookups made.
RECURSIVE ContextLoop(_, _, _, _, _)
ContextLoop(records, I, i, contexto, lookups) ==
    IF i > Len(I)
    THEN [exc |-> NoExc, contexto |-> contexto, lookups |-> lookups]
    ELSE IF ~PyIndexOk(records, I[i])
    THEN [exc |-> Exc("IndexError", "list index out of range", NoResponse),
          contexto |-> <<>>, lookups |-> lookups + 1]
    ELSE IF ~HasKeys(PyIndex(records, I[i]))
    THEN [exc |-> Exc("KeyError", "'file'", NoResponse),
          contexto |-> <<>>, lookups |-> lookups + 1]
    ELSE ContextLoop(records, I, i + 1,
                     contexto \o Block(PyIndex(records, I[i])), lookups + 1)

\* ------------------------------------------------------ answer extraction
\* Lines 99-104 of responder_con_gemini on the object generate_content
\* returned: hasattr(respuesta, "text") evaluates the attribute, so a text
\* property that raises makes hasattr raise; the nested path is tried only
\* when there is no attribute text.
ExtractAnswer(respuesta) ==
    IF respuesta.text = "raises"
    THEN [exc |-> Exc("ValueError", "response.text requires the response to contain a valid Part", NoResponse),
          answer |-> None]
    ELSE IF respuesta.text # "absent"
    THEN [exc |-> NoExc,
          answer |-> IF respuesta.text = "empty" THEN "" ELSE "direct text"]
    ELSE IF respuesta.candidates = "emptylist"
    THEN [exc |-> Exc("IndexError", "list index out of range", NoResponse),
          answer |-> None]
    ELSE IF respuesta.candidates = "ok"
    THEN [exc |-> NoExc, answer |-> "nested text"]
    ELSE [exc |-> Exc("ValueError",
                      "No se pudo interpretar la respuesta de Gemini: ",
                      respuesta),
          answer |-> None]

\* ---------------------------------------------------------- HTTP results
\* str(e) of an exception, and the string of a literal message.
Str(e) == [msg |-> e.msg, raw |-> e.raw]
NoStr == [msg |-> "", raw |-> NoResponse]

\* What the client receives: the status, the key set of the JSON object in
\* the body (empty for {} and for the framework's own error pages) with the
\* values under 'respuesta' and 'error', and the type of the exception that
\* left the view function, if one did.
Http(status, keys, answer, error, unhandled) ==
    [status |-> status, keys |-> keys, respuesta |-> answer, error |-> error,
     unhandled |-> unhandled]
NoResult == Http(0, {}, None, NoStr, "none")

\* return jsonify({}), 200
OptionsResult == Http(200, {}, None, NoStr, "none")
\* return jsonify({"error": "Falta el campo 'pregunta'"}), 400
InvalidInput ==
    Http(400, {"error"}, None, [msg |-> "Falta el campo 'pregunta'", raw |-> NoResponse],
         "none")
\* return jsonify({"respuesta": respuesta})
Respuesta(answer) == Http(200, {"respuesta"}, answer, NoStr, "none")
\* The same with "except (ValueError, RuntimeError) as e": any other
\* exception leaves the view function.
CaughtValueErrorsOnly(e) ==
    IF e.type \in {"ValueError", "RuntimeError"}
    THEN Http(500, {"error"}, None, Str(e), "none")
    ELSE Http(500, {}, None, NoStr, e.type)
\* except Exception as e: return jsonify({"error": str(e)}), 500
Caught(e) == Http(500, {"error"}, None, Str(e), "none")
\* An exception raised outside the try block reaches the framework, which
\* answers 500 with its own page; an HTTP error raised by the framework
\* itself is answered with that error's status.
Unhandled(type) == Http(500, {}, None, NoStr, type)
Aborted(status) == Http(status, {}, None, NoStr, "HTTPException")

\* request.get_json() for each body.  With no JSON body the outcome depends
\* on the installed framework version: it returns None, or aborts the
\* request with an HTTP error (415 Unsupported Media Type).  "data" is the parsed value, "abort" the status
\* (0 if it returns).
GetJsonOutcomes(body) ==
    CASE body.json = "absent" ->
            {[abort |-> 0, data |-> "None"], [abort |-> 415, data |-> "None"]}
      [] body.json = "null" -> {[abort |-> 0, data |-> "None"]}
      [] OTHER -> {[abort |-> 0, data |-> "dict"]}
\* data.get("pregunta") on a dict
DictGet(body) == IF body.pregunta = Absent THEN None ELSE body.pregunta

\* ---------------------------------------------------------------- state
VARIABLES
    disk,             \* the files found at startup (never written)
    index,            \* global index: the loaded FAISS index, or None
    metadata,         \* global metadata: the loaded list of records, or None
    cache,            \* the lru_cache of obtener_embedding_local
    pc,               \* where each handler thread stands
    request,          \* the request a handler is serving
    vector_consulta,  \* local of buscar_contexto_para_gemini
    I,                \* positions returned by index.search
    contexto,         \* the context string built
    respuesta,        \* the object generate_content returned
    result,           \* the HTTP result of the request
    raised,           \* history: the exception a pipeline step raised
    calls,            \* history: collaborator calls made during the request
    used              \* history: texts in order of their last cache use

vars == <<disk, index, metadata, cache, pc, request, vector_consulta, I,
          contexto, respuesta, result, raised, calls, used>>

NoRequest == [method |-> "none", body |-> [json |-> "absent", pregunta |-> Absent]]
NoCalls == [embedding |-> 0, encode |-> 0, search |-> 0, lookup |-> 0, generate |-> 0]
NoVector == -1

Init ==
    /\ disk \in Disks
    /\ index = LoadAtStartup(disk).index
    /\ metadata = LoadAtStartup(disk).metadata
    /\ cache = <<>>
    /\ pc = [h \in Handlers |-> "idle"]
    /\ request = [h \in Handlers |-> NoRequest]
    /\ vector_consulta = [h \in Handlers |-> NoVector]
    /\ I = [h \in Handlers |-> <<>>]
    /\ contexto = [h \in Handlers |-> <<>>]
    /\ respuesta = [h \in Handlers |-> NoResponse]
    /\ result = [h \in Handlers |-> NoResult]
    /\ raised = [h \in Handlers |-> NoExc]
    /\ calls = [h \in Handlers |-> NoCalls]
    /\ used = <<>>

\* The handler returns res to the client.
Return(h, res) ==
    /\ result' = [result EXCEPT ![h] = res]
    /\ pc' = [pc EXCEPT ![h] = "done"]
    /\ UNCHANGED raised

\* A step called inside the try block of consultar raises e: the except
\* clause of lines 121-123 turns it into the result.
Raise(h, e) ==
    /\ raised' = [raised EXCEPT ![h] = e]
    /\ result' = [result EXCEPT ![h] = Caught(e)]
    /\ pc' = [pc EXCEPT ![h] = "done"]

\* The handler goes on to its next step.
Goto(h, label) ==
    /\ pc' = [pc EXCEPT ![h] = label]
    /\ UNCHANGED <<result, raised>>

\* The text is used in the cache: it becomes the most recently used one.
Touch(texto) ==
    used' = SelectSeq(used, LAMBDA t : t # texto) \o <<texto>>

\* The check skipped: the pipeline runs with index = None.
AlwaysAvailable == FALSE
\* if index is None or metadata is None
Unavailable == index.none \/ metadata.none

\* consultar, lines 108-115: a request arrives at an idle worker, which
\* answers OPTIONS, reads the JSON body and rejects a missing question.
consultar(h) ==
    /\ pc[h] = "idle"
    /\ \E method \in Methods, body \in Bodies :
          /\ method = "OPTIONS" => body.json = "absent"
          /\ request' = [request EXCEPT ![h] = [method |-> method, body |-> body]]
          /\ IF method = "OPTIONS"
             THEN Return(h, OptionsResult)
             ELSE \E got \in GetJsonOutcomes(body) :
                     IF got.abort # 0
                     THEN Return(h, Aborted(got.abort))
                     ELSE IF got.data = "None"
                     THEN Return(h, Unhandled("AttributeError"))
                     ELSE IF Falsy(DictGet(body))
                     THEN Return(h, InvalidInput)
                     ELSE Goto(h, "buscar")
    /\ UNCHANGED <<disk, index, metadata, cache, vector_consulta, I, contexto,
                   respuesta, calls, used>>

\* buscar_contexto_para_gemini, lines 72-75: the availability check, then
\* the call of the cached obtener_embedding_local, which is answered from
\* the cache on a hit.
buscar_contexto_para_gemini(h) ==
    /\ pc[h] = "buscar"
    /\ IF Unavailable
       THEN /\ Raise(h, Exc("RuntimeError",
                            "El indice FAISS no esta disponible en memoria",
                            NoResponse))
            /\ UNCHANGED <<cache, vector_consulta, calls, used>>
       ELSE /\ calls' = [calls EXCEPT ![h].embedding = @ + 1]
            /\ IF request[h].body.pregunta \in CacheKeys(cache)
               THEN /\ vector_consulta' = [vector_consulta EXCEPT ![h] =
                                              CacheGet(cache, request[h].body.pregunta)]
                    /\ cache' = CacheHit(cache, request[h].body.pregunta)
                    /\ Touch(request[h].body.pregunta)
                    /\ Goto(h, "search")
               ELSE /\ Goto(h, "encode")
                    /\ UNCHANGED <<cache, vector_consulta, used>>
    /\ UNCHANGED <<disk, index, metadata, request, I, contexto, respuesta>>

\* obtener_embedding_local, lines 67-69, run on a cache miss: the model
\* encodes the text, or fails; the vector returned is stored in the cache.
obtener_embedding_local(h) ==
    /\ pc[h] = "encode"
    /\ calls' = [calls EXCEPT ![h].encode = @ + 1]
    /\ \E ok \in BOOLEAN :
          IF ok
          THEN /\ vector_consulta' = [vector_consulta EXCEPT ![h] =
                                         Encode(request[h].body.pregunta)]
               /\ cache' = CacheInsert(cache, request[h].body.pregunta,
                                       Encode(request[h].body.pregunta))
               /\ IF request[h].body.pregunta \in CacheKeys(cache)
                  THEN UNCHANGED used
                  ELSE Touch(request[h].body.pregunta)
               /\ Goto(h, "search")
          ELSE /\ Raise(h, Exc("RuntimeError", "encode failed", NoResponse))
               /\ UNCHANGED <<cache, vector_consulta, used>>
    /\ UNCHANGED <<disk, index, metadata, request, I, contexto, respuesta>>

\* buscar_contexto_para_gemini, lines 76-82: the search and the loop that
\* builds the context.  A search on an index built for another embedding
\* dimension fails.
SearchStep(h) ==
    /\ pc[h] = "search"
    /\ IF index.d # "all-MiniLM-L6-v2"
       THEN /\ Raise(h, Exc("AssertionError", "", NoResponse))
            /\ calls' = [calls EXCEPT ![h].search = @ + 1]
            /\ UNCHANGED <<I, contexto>>
       ELSE LET found == Search(index.xb, vector_consulta[h], top_k)
                loop == ContextLoop(metadata.records, found, 1, <<>>, 0)
            IN  /\ I' = [I EXCEPT ![h] = found]
                /\ calls' = [calls EXCEPT ![h].search = @ + 1,
                                          ![h].lookup = @ + loop.lookups]
                /\ IF loop.exc # NoExc
                   THEN /\ Raise(h, loop.exc)
                        /\ UNCHANGED contexto
                   ELSE /\ contexto' = [contexto EXCEPT ![h] = loop.contexto]
                        /\ Goto(h, "generate")
    /\ UNCHANGED <<disk, cache, request, vector_consulta, respuesta, used>>

\* The same step with metadata.pop(idx) in place of metadata[idx].
index_search_pop(h) ==
    /\ SearchStep(h)
    /\ metadata' = [metadata EXCEPT !.records = IF Len(@) > 0 THEN Tail(@) ELSE @]
    /\ UNCHANGED index

\* index and metadata are only read.
index_search(h) ==
    /\ SearchStep(h)
    /\ UNCHANGED <<index, metadata>>

\* responder_con_gemini, lines 85-104, and the return of consultar, lines
\* 120-123: generate_content fails or returns an object of some shape.
responder_con_gemini(h) ==
    /\ pc[h] = "generate"
    /\ calls' = [calls EXCEPT ![h].generate = @ + 1]
    /\ \/ /\ Raise(h, Exc("GoogleAPIError", "generate_content failed", NoResponse))
          /\ UNCHANGED respuesta
       \/ \E r \in Responses :
             /\ respuesta' = [respuesta EXCEPT ![h] = r]
             /\ IF ExtractAnswer(r).exc # NoExc
                THEN Raise(h, ExtractAnswer(r).exc)
                ELSE Return(h, Respuesta(ExtractAnswer(r).answer))
    /\ UNCHANGED <<disk, index, metadata, cache, request, vector_consulta, I,
                   contexto, used>>

\* The response is sent and the worker is free for the next request.
send_response(h) ==
    /\ pc[h] = "done"
    /\ pc' = [pc EXCEPT ![h] = "idle"]
    /\ request' = [request EXCEPT ![h] = NoRequest]
    /\ vector_consulta' = [vector_consulta EXCEPT ![h] = NoVector]
    /\ I' = [I EXCEPT ![h] = <<>>]
    /\ contexto' = [contexto EXCEPT ![h] = <<>>]
    /\ respuesta' = [respuesta EXCEPT ![h] = NoResponse]
    /\ result' = [result EXCEPT ![h] = NoResult]
    /\ raised' = [raised EXCEPT ![h] = NoExc]
    /\ calls' = [calls EXCEPT ![h] = NoCalls]
    /\ UNCHANGED <<disk, index, metadata, cache, used>>

Next ==
    \E h \in Handlers :
        \/ consultar(h)
        \/ buscar_contexto_para_gemini(h)
        \/ obtener_embedding_local(h)
        \/ index_search(h)
        \/ responder_con_gemini(h)
        \/ send_response(h)

Spec == Init /\ [][Next]_vars

\* ======================================================================
\* Properties
\* ======================================================================
Done(h) == pc[h] = "done"
Post(h) == request[h].method = "POST"
\* The request carries a non-empty question string.
HasQuestion(h) ==
    Post(h) /\ request[h].body.json = "object" /\ request[h].body.pregunta \in Questions
\* The question is empty or missing.
NoQuestion(h) ==
    Post(h) /\ (request[h].body.json # "object"
                \/ request[h].body.pregunta \in {Absent, None, ""})
LoadFailed == cargar_index_y_metadata(disk).exc # NoExc
\* index.search ran during the request of h.
Searched(h) == I[h] # <<>>
\* buscar_contexto_para_gemini failed during the request of h.
BuscarFailed(h) == raised[h] # NoExc /\ calls[h].generate = 0
\* The records use the keys 'file' and 'text' and are as many as the vectors.
MatchingMetadata ==
    /\ ~index.none /\ ~metadata.none
    /\ Len(metadata.records) = Len(index.xb)
    /\ \A i \in 1..Len(metadata.records) :
          DOMAIN metadata.records[i] = {"file", "text"}
\* The i-th block of a context string, and the block of a record.
BlockAt(ctx, i) == SubSeq(ctx, 5 * (i - 1) + 1, 5 * i)
BlockOf(doc) == <<"Documento: ", doc.file, "\nTexto: ", doc.text, "\n\n">>
ErrorResult(msg, raw) ==
    [status |-> 500, keys |-> {"error"}, respuesta |-> None,
     error |-> [msg |-> msg, raw |-> raw], unhandled |-> "none"]
AnswerResult(answer) ==
    [status |-> 200, keys |-> {"respuesta"}, respuesta |-> answer,
     error |-> NoStr, unhandled |-> "none"]

\* C1: every POST with a non-empty question, index and metadata loaded,
\* returns exactly one of: 'respuesta' holding a non-empty answer, or
\* 'error' holding a message.
C1_AnswerOrError ==
    \A h \in Handlers :
        (Done(h) /\ HasQuestion(h) /\ ~LoadFailed /\ MatchingMetadata
            /\ Len(index.xb) >= top_k) =>
            \/ result[h].keys = {"respuesta"} /\ result[h].respuesta \notin {"", None}
            \/ result[h].keys = {"error"}

\* C2: every POST whose question is empty or missing (no key, null, "", or
\* no JSON body at all) returns {"error": "Falta el campo 'pregunta'"} with
\* status 400, no collaborator having been called.
C2_MissingQuestionRejected ==
    \A h \in Handlers :
        (Done(h) /\ NoQuestion(h)) =>
            /\ result[h] = [status |-> 400, keys |-> {"error"}, respuesta |-> None,
                            error |-> [msg |-> "Falta el campo 'pregunta'",
                                       raw |-> NoResponse],
                            unhandled |-> "none"]
            /\ calls[h] = NoCalls

\* C3: every failure raised by a pipeline step is caught in consultar and
\* returned as {"error": <its message>} with status 500; none escapes the
\* handler, and no 'respuesta' is returned for a request in which a step
\* failed.
C3_FailuresCaught ==
    \A h \in Handlers :
        /\ raised[h] # NoExc =>
              /\ Done(h)
              /\ result[h] = ErrorResult(raised[h].msg, raised[h].raw)
        /\ result[h].keys = {"respuesta"} => raised[h] = NoExc
        /\ HasQuestion(h) => result[h].unhandled = "none"
C3_Witness ==
    \E h \in Handlers :
        /\ Done(h) /\ raised[h].type = "IndexError" /\ calls[h].lookup > 0
        /\ result[h].keys = {"error"}

C5_FewerVectorsThanTopK ==
    \A h \in Handlers :
        (Searched(h) /\ MatchingMetadata /\ Len(index.xb) >= 1
         /\ Len(index.xb) < top_k) =>
            /\ ~BuscarFailed(h)
            /\ Len(contexto[h]) = 5 * Len(index.xb)
            /\ \A p \in 1..Len(metadata.records) :
                  Cardinality({i \in 1..Len(index.xb) :
                      BlockAt(contexto[h], i) = BlockOf(metadata.records[p])}) = 1

\* C6: for every position p returned by the search, either the block
\* written is built from metadata[p] with 0 <= p < len(metadata), or the
\* call fails; no other record is ever placed in the context.
C6_RecordAtReturnedPosition ==
    \A h \in Handlers :
        Searched(h) =>
            \/ BuscarFailed(h)
            \/ \A i \in 1..Len(I[h]) :
                  /\ 0 <= I[h][i] /\ I[h][i] < Len(metadata.records)
                  /\ BlockAt(contexto[h], i) = BlockOf(metadata.records[I[h][i] + 1])

\* C7: the answer is the direct text field if it yields a text, else the
\* nested candidates[0].content.parts[0].text if that yields one; when
\* neither does (the text field cannot be read, the candidates list is
\* empty) the call fails with the response-parse error carrying the raw
\* response, and with no other error.
C7_ExtractionOrder ==
    \A h \in Handlers :
        (Done(h) /\ respuesta[h] # NoResponse) =>
            IF respuesta[h].text = "ok"
            THEN result[h] = AnswerResult("direct text")
            ELSE IF respuesta[h].candidates = "ok"
            THEN result[h] = AnswerResult("nested text")
            ELSE /\ raised[h].type = "ValueError"
                 /\ raised[h].raw = respuesta[h]
                 /\ result[h] = ErrorResult(raised[h].msg, respuesta[h])

\* C8: two calls of obtener_embedding_local with the same text return the
\* same vector and the second is served from the cache without invoking
\* the model; the cache holds at most maxsize entries and evicts the
\* least-recently-used one when a new text is inserted at capacity.
Keys(c) == {c[i].key : i \in 1..Len(c)}
Question(h) == request[h].body.pregunta
\* The cached texts, least recently used first, by the history of uses.
ByLastUse(c) == SelectSeq(used, LAMBDA t : t \in Keys(c))
C8_CacheState ==
    /\ Len(cache) <= maxsize
    /\ \A i, j \in 1..Len(cache) : cache[i].key = cache[j].key => i = j
    /\ ByLastUse(cache) = [i \in 1..Len(cache) |-> cache[i].key]
    /\ used # <<>> => used[Len(used)] \in Keys(cache)
    /\ \A h1, h2 \in Handlers :
          (HasQuestion(h1) /\ HasQuestion(h2) /\ Question(h1) = Question(h2)
           /\ vector_consulta[h1] # NoVector /\ vector_consulta[h2] # NoVector)
          => vector_consulta[h1] = vector_consulta[h2]
\* A call made while the text is cached does not invoke the model and
\* returns the cached vector.
C8_ServedFromCache ==
    \A h \in Handlers :
        (pc[h] = "buscar" /\ pc'[h] \in {"encode", "search"}
         /\ Question(h) \in Keys(cache)) =>
            /\ pc'[h] = "search"
            /\ calls'[h].encode = 0
            /\ \E i \in 1..Len(cache) :
                  cache[i].key = Question(h) /\ vector_consulta'[h] = cache[i].val
\* A call that returns leaves its text and the vector it returned cached.
C8_Stored ==
    \A h \in Handlers :
        (pc[h] \in {"buscar", "encode"} /\ pc'[h] = "search") =>
            \E i \in 1..Len(cache') :
                cache'[i].key = Question(h) /\ cache'[i].val = vector_consulta'[h]
\* Only an insertion at capacity removes an entry, and it removes the
\* least recently used one.
C8_EvictsLeastRecentlyUsed ==
    Keys(cache) \ Keys(cache') # {} =>
        /\ Len(cache) = maxsize
        /\ Keys(cache) \ Keys(cache') = {ByLastUse(cache)[1]}
        /\ Cardinality(Keys(cache') \ Keys(cache)) = 1
\* C8 as a whole: the cache state is always as described, and every step
\* serves cached texts from the cache, stores what it returns and evicts
\* only the least recently used entry.
C8_Memoization ==
    /\ []C8_CacheState
    /\ [][C8_ServedFromCache /\ C8_Stored /\ C8_EvictsLeastRecentlyUsed]_vars
\* A second call with the same text was served from the cache, after an
\* eviction has taken place.
C8_Witness ==
    /\ Len(used) > maxsize
    /\ \E h1, h2 \in Handlers :
          /\ h1 # h2 /\ HasQuestion(h1) /\ Question(h1) = Question(h2)
          /\ calls[h1].encode = 1 /\ vector_consulta[h1] # NoVector
          /\ pc[h2] = "search" /\ calls[h2].embedding = 1 /\ calls[h2].encode = 0
          /\ vector_consulta[h2] = vector_consulta[h1]

\* C9: with at least top_k vectors and matching metadata,
\* buscar_contexto_para_gemini returns exactly top_k blocks, one per
\* position returned by the search, nearest first, each block being
\* 'Documento: <file>' / 'Texto: <text>' and a blank line; two calls with
\* the same query return the same string.
C9_TopKBlocks ==
    \A h \in Handlers :
        (Searched(h) /\ MatchingMetadata /\ Len(index.xb) >= top_k) =>
            /\ ~BuscarFailed(h)
            /\ Len(I[h]) = top_k
            /\ \A i \in 1..top_k : I[h][i] \in 0..(Len(index.xb) - 1)
            /\ \A i, j \in 1..top_k :
                  i < j => Dist(vector_consulta[h], index.xb[I[h][i] + 1])
                              < Dist(vector_consulta[h], index.xb[I[h][j] + 1])
            /\ \A p \in 0..(Len(index.xb) - 1) :
                  (\A i \in 1..top_k : I[h][i] # p) =>
                      Dist(vector_consulta[h], index.xb[p + 1])
                         >= Dist(vector_consulta[h], index.xb[I[h][top_k] + 1])
            /\ Len(contexto[h]) = 5 * top_k
            /\ \A i \in 1..top_k :
                  BlockAt(contexto[h], i) =
                     <<"Documento: ", metadata.records[I[h][i] + 1].file,
                       "\nTexto: ", metadata.records[I[h][i] + 1].text, "\n\n">>
            /\ \A g \in Handlers :
                  (Searched(g) /\ Question(g) = Question(h)) =>
                      contexto[g] = contexto[h]
\* Two requests with the same question have built their contexts from an
\* index of more than top_k vectors, in an order that is not the stored one.
C9_Witness ==
    /\ MatchingMetadata /\ Len(index.xb) > top_k
    /\ \E h1, h2 \in Handlers :
          /\ h1 # h2 /\ Question(h1) = Question(h2)
          /\ pc[h1] = "generate" /\ pc[h2] = "generate"
          /\ I[h1] # <<0, 1, 2>> /\ contexto[h1] # <<>>

\* C10: no request changes index or metadata, however the handlers
\* interleave and whether they succeed or fail; what a request retrieves
\* depends only on its question.
C10_SameQuestionSameRetrieval ==
    \A h1, h2 \in Handlers :
        (Searched(h1) /\ Searched(h2) /\ Question(h1) = Question(h2)) =>
            /\ I[h1] = I[h2]
            /\ contexto[h1] = contexto[h2]
            /\ BuscarFailed(h1) = BuscarFailed(h2)
\* C10 as a whole: every step leaves index and metadata as they were
\* after startup, and equal questions retrieve equal results.
C10_GlobalsReadOnly ==
    /\ [][index' = index /\ metadata' = metadata]_vars
    /\ []C10_SameQuestionSameRetrieval
\* One request has succeeded and another has failed in the lookup.
C10_Witness ==
    /\ ~index.none
    /\ \E h1, h2 \in Handlers :
          /\ Done(h1) /\ result[h1].keys = {"respuesta"}
          /\ Done(h2) /\ result[h2].keys = {"error"} /\ raised[h2] # NoExc

====
